---- MODULE Spec2Model ----
(***************************************************************************)
(* Weight maps on { 1, ..., N } (src/weights.py) and the interval pairings *)
(* that drive Weights.transferBy (src/pairing.py).                         *)
(*                                                                         *)
(* A weight map is the Python list self._weights of two-element lists      *)
(* [ x, w ]: x is the last point of a constant-weight subinterval and w    *)
(* its weight vector.  Here it is a sequence of records [end, w].  Python  *)
(* indices are 0-based and kept as such in the operators; element i of the *)
(* Python list is W[i+1].  Python's None is the value None below.          *)
(***************************************************************************)
EXTENDS Integers, Sequences, FiniteSets, TLC

\* ---------------------------------------------------------------- bounds
\* Largest interval length N of a constructed weight map.
MaxN == 4
\* Largest component of a weight vector held by a map.
MaxVal == 1
\* Largest dimension d of the weight vectors.
MaxDim == 2
\* Largest a, c and width of a constructed Pairing under its mutators.
MaxP == 3
\* Largest order of a pseudogroup of pairings.
MaxOrder == 3
\* Largest a, c and width of a pairing held by a pseudogroup.
MaxQ == 2

\* Python's None, as returned by _findSubinterval, setZero and addWeight
\* and as held by _dim of an empty map (indices and points are never
\* negative).
None == 0 - 1

Max(x, y) == IF x >= y THEN x ELSE y
Min(x, y) == IF x <= y THEN x ELSE y

\* ------------------------------------------------------ Python list steps
\* list.insert( i, x )
Insert(L, i, x) == SubSeq(L, 1, i) \o <<x>> \o SubSeq(L, i + 1, Len(L))
\* list.pop( i )
Pop(L, i) == SubSeq(L, 1, i) \o SubSeq(L, i + 2, Len(L))
\* L[i] = x
SetAt(L, i, x) == [L EXCEPT ![i + 1] = x]

Run(x, w) == [end |-> x, w |-> w]

\* [0] * self.dimension()
ZeroVector(d) == [k \in 1..d |-> 0]

\* _vectorSum( v, w )
vectorSum(v, w) == [k \in 1..Len(v) |-> v[k] + w[k]]

\* --------------------------------------------------------------- queries
isEmpty(W) == W = <<>>

countSubintervals(W) == Len(W)

intervalLength(W) == IF isEmpty(W) THEN 0 ELSE W[Len(W)].end

\* The loop of _findSubinterval, from index i with the running previousEnd.
RECURSIVE findLoop(_, _, _, _)
findLoop(W, x, i, previousEnd) ==
    IF i >= countSubintervals(W)
    THEN [found |-> FALSE, i |-> None, p |-> None, q |-> None, w |-> <<>>]
    ELSE IF x <= W[i + 1].end
         THEN [found |-> TRUE, i |-> i, p |-> previousEnd + 1,
               q |-> W[i + 1].end, w |-> W[i + 1].w]
         ELSE findLoop(W, x, i + 1, W[i + 1].end)

\* _findSubinterval with "x < previousEnd" for "x <= previousEnd".
findSubintervalLoose(W, x, index) ==
    LET notFound == [found |-> FALSE, i |-> None, p |-> None, q |-> None,
                     w |-> <<>>]
        previousEnd == IF index = 0 THEN 0 ELSE W[index].end
    IN  IF isEmpty(W) THEN notFound
        ELSE IF x < previousEnd THEN notFound
        ELSE findLoop(W, x, index, previousEnd)

\* Weights._findSubinterval( x, index ); found = FALSE stands for None.
findSubinterval(W, x, index) ==
    LET notFound == [found |-> FALSE, i |-> None, p |-> None, q |-> None,
                     w |-> <<>>]
        previousEnd == IF index = 0 THEN 0 ELSE W[index].end
    IN  IF isEmpty(W) THEN notFound
        ELSE IF x <= previousEnd THEN notFound
        ELSE findLoop(W, x, index, previousEnd)

\* ----------------------------------------------------------- constructor
\* initLoop with "self._dim < len(weight)" for "self._dim != len(weight)".
RECURSIVE initLoopShorter(_, _, _, _, _, _)
initLoopShorter(data, i, total, W, dim, previousWeight) ==
    IF i >= Len(data) THEN [weights |-> W, dim |-> dim, err |-> "none"]
    ELSE LET width == data[i + 1][1]
             weight == data[i + 1][2]
             newDim == IF i = 0 THEN Len(weight) ELSE dim
             newTotal == total + width
         IN  IF i # 0 /\ dim < Len(weight)
             THEN [weights |-> W, dim |-> dim, err |-> "WeightDimensionError"]
             ELSE IF weight = previousWeight
             THEN IF W = <<>>
                  THEN [weights |-> W, dim |-> newDim, err |-> "IndexError"]
                  ELSE initLoopShorter(data, i + 1, newTotal,
                                SetAt(W, Len(W) - 1, Run(newTotal, weight)),
                                newDim, weight)
             ELSE initLoopShorter(data, i + 1, newTotal,
                           Append(W, Run(newTotal, weight)), newDim, weight)

\* The loop of Weights.__init__ over data[i..]; err names the exception
\* that ends the construction, if any.
RECURSIVE initLoop(_, _, _, _, _, _)
initLoop(data, i, total, W, dim, previousWeight) ==
    IF i >= Len(data) THEN [weights |-> W, dim |-> dim, err |-> "none"]
    ELSE LET width == data[i + 1][1]
             weight == data[i + 1][2]
             newDim == IF i = 0 THEN Len(weight) ELSE dim
             newTotal == total + width
         IN  IF i # 0 /\ dim # Len(weight)
             THEN [weights |-> W, dim |-> dim, err |-> "WeightDimensionError"]
             ELSE IF weight = previousWeight
             THEN IF W = <<>>
                  THEN [weights |-> W, dim |-> newDim, err |-> "IndexError"]
                  ELSE initLoop(data, i + 1, newTotal,
                                SetAt(W, Len(W) - 1, Run(newTotal, weight)),
                                newDim, weight)
             ELSE initLoop(data, i + 1, newTotal,
                           Append(W, Run(newTotal, weight)), newDim, weight)

\* Weights( data ); data = <<>> stands for data=None.
WeightsInit(data) ==
    IF data = <<>> THEN [weights |-> <<>>, dim |-> None, err |-> "none"]
    ELSE initLoop(data, 0, 0, <<>>, None, <<>>)

\* ---------------------------------------------------------------- setZero
\* The loop "while i < self.countSubintervals() and end >= self._weights[i][0]"
\* of setZero.
RECURSIVE popLoop(_, _, _)
popLoop(W, i, end) ==
    IF i < countSubintervals(W) /\ end >= W[i + 1].end
    THEN popLoop(Pop(W, i), i, end)
    ELSE W

\* zeroBefore without the case of a start point inside a zero subinterval.
zeroBeforeNoSplit(W, i, p, assignedWeight, start, zero) ==
    IF start = p THEN i > 0 /\ W[i].w = zero
    ELSE FALSE

\* Is the point start - 1 already assigned zero weight?  (The zeroBefore
\* flag of setZero; i, p and assignedWeight are as _findSubinterval
\* returned them.)
zeroBefore(W, i, p, assignedWeight, start, zero) ==
    IF start = p THEN i > 0 /\ W[i].w = zero
    ELSE assignedWeight = zero

\* setZeroFinish that ends the merged zero subinterval one point early.
setZeroFinishShort(W, i, end, zero, before) ==
    IF i < countSubintervals(W) /\ W[i + 1].w = zero
    THEN IF before THEN Pop(W, i - 1) ELSE W
    ELSE IF before THEN SetAt(W, i - 1, Run(end - 1, zero))
         ELSE Insert(W, i, Run(end, zero))

\* The last step of setZero: set the weight on [start,end] to zero, where
\* i is the index of the first subinterval that ends after end.
setZeroFinish(W, i, end, zero, before) ==
    IF i < countSubintervals(W) /\ W[i + 1].w = zero
    THEN IF before THEN Pop(W, i - 1) ELSE W
    ELSE IF before THEN SetAt(W, i - 1, Run(end, zero))
         ELSE Insert(W, i, Run(end, zero))

\* Weights.setZero( start, width, index ) on the run list W of a map of
\* dimension d: the new run list and the returned value.
setZero(W, d, start, width, index) ==
    LET data == findSubinterval(W, start, index)
    IN  IF ~data.found THEN [weights |-> W, ret |-> None]
        ELSE
        LET zero == ZeroVector(d)
            end == start + width - 1
            before == zeroBefore(W, data.i, data.p, data.w, start, zero)
            W1 == IF start = data.p THEN W
                  ELSE Insert(W, data.i, Run(start - 1, data.w))
            i == IF start = data.p THEN data.i ELSE data.i + 1
            W2 == popLoop(W1, i, end)
        IN  [weights |-> setZeroFinish(W2, i, end, zero, before),
             ret |-> data.i]

\* -------------------------------------------------------------- addWeight
\* mergeBefore that compares the (i-1)st weight with the summand.
mergeBeforeSummand(W, i, p, assignedWeight, weight, start) ==
    /\ start = p
    /\ i > 0
    /\ W[i].w = weight

\* Will the (i-1)st and ith subintervals carry the same weight once weight
\* is added from the start point p of the ith?
mergeBefore(W, i, p, assignedWeight, weight, start) ==
    /\ start = p
    /\ i > 0
    /\ W[i].w = vectorSum(assignedWeight, weight)

\* addLoop with "end > self._weights[i][0]" for "end >= ...".
RECURSIVE addLoopStrict(_, _, _, _)
addLoopStrict(W, i, end, weight) ==
    IF i < countSubintervals(W) /\ end > W[i + 1].end
    THEN addLoopStrict(
             SetAt(W, i, Run(W[i + 1].end, vectorSum(W[i + 1].w, weight))),
             i + 1, end, weight)
    ELSE [weights |-> W, i |-> i]

\* The loop over the subintervals lying entirely inside [start,end].
RECURSIVE addLoop(_, _, _, _)
addLoop(W, i, end, weight) ==
    IF i < countSubintervals(W) /\ end >= W[i + 1].end
    THEN addLoop(SetAt(W, i, Run(W[i + 1].end, vectorSum(W[i + 1].w, weight))),
                 i + 1, end, weight)
    ELSE [weights |-> W, i |-> i]

\* addWeightFinish without the merger of the subintervals around end.
addWeightFinishNoMerge(W, i, end, weight) ==
    IF i = countSubintervals(W) THEN W
    ELSE LET currentWeight == W[i + 1].w
             previousEnd == IF i = 0 THEN 0 ELSE W[i].end
         IN  IF end > previousEnd
             THEN Insert(W, i, Run(end, vectorSum(currentWeight, weight)))
             ELSE W

\* The last step of addWeight, on the subinterval i the loop stopped at.
addWeightFinish(W, i, end, weight) ==
    IF i = countSubintervals(W) THEN W
    ELSE LET currentWeight == W[i + 1].w
             previousEnd == IF i = 0 THEN 0 ELSE W[i].end
         IN  IF end > previousEnd
             THEN Insert(W, i, Run(end, vectorSum(currentWeight, weight)))
             ELSE IF W[i].w = currentWeight THEN Pop(W, i - 1)
                  ELSE W

\* Weights.addWeight( weight, start, width, index ).
addWeight(W, d, weight, start, width, index) ==
    LET data == findSubinterval(W, start, index)
    IN  IF ~data.found THEN [weights |-> W, ret |-> None]
        ELSE IF weight = ZeroVector(d) THEN [weights |-> W, ret |-> data.i]
        ELSE
        LET end == start + width - 1
            merge == mergeBefore(W, data.i, data.p, data.w, weight, start)
            W1 == IF start = data.p
                  THEN IF merge THEN Pop(W, data.i - 1) ELSE W
                  ELSE Insert(W, data.i, Run(start - 1, data.w))
            i == IF start = data.p
                 THEN IF merge THEN data.i - 1 ELSE data.i
                 ELSE data.i + 1
            after == addLoop(W1, i, end, weight)
        IN  [weights |-> addWeightFinish(after.weights, after.i, end, weight),
             ret |-> data.i]

\* ----------------------------------------------------------------- extend
\* Weights.extend( width, weight ).
extend(W, width, weight) ==
    IF W # <<>> /\ W[Len(W)].w = weight
    THEN SetAt(W, Len(W) - 1, Run(W[Len(W)].end + width, weight))
    ELSE Append(W, Run(width, weight))

\* ---------------------------------------------------------------- Pairing
\* A Pairing object: the endpoints _a, _b, _c, _d, the flag _preserving and
\* the four cached properties.  A cached property is <<>> while it is None
\* and <<v>> once the value v is cached.
\* Pairing._resetCache()
resetCache(P) ==
    [P EXCEPT !.width = <<>>, !.translationDistance = <<>>,
              !.isIdentity = <<>>, !.periodicInterval = <<>>]

\* Pairing._setPairing( a, c, width, preserving ) on a new object.
setPairing(a, c, width, preserving) ==
    [a |-> a, b |-> a + width - 1, c |-> c, d |-> c + width - 1,
     preserving |-> preserving,
     width |-> <<width>>, translationDistance |-> <<>>,
     isIdentity |-> <<>>, periodicInterval |-> <<>>]

\* Pairing( a, c, width, preserving )
Pairing(a, c, width, preserving) ==
    IF a > c THEN setPairing(c, a, width, preserving)
    ELSE setPairing(a, c, width, preserving)

\* The cached queries return the value and the object with its cache filled.
\* Pairing.width()
pairingWidth(P) ==
    IF P.width = <<>>
    THEN [val |-> P.b - P.a + 1, self |-> [P EXCEPT !.width = <<P.b - P.a + 1>>]]
    ELSE [val |-> P.width[1], self |-> P]

\* Pairing.translationDistance()
translationDistance(P) ==
    IF P.translationDistance = <<>>
    THEN LET t == IF P.preserving THEN P.c - P.a ELSE 0 - 1
         IN  [val |-> t, self |-> [P EXCEPT !.translationDistance = <<t>>]]
    ELSE [val |-> P.translationDistance[1], self |-> P]

\* Pairing.isIdentity()
isIdentity(P) ==
    IF P.isIdentity = <<>>
    THEN LET v == P.preserving /\ P.a = P.c
         IN  [val |-> v, self |-> [P EXCEPT !.isIdentity = <<v>>]]
    ELSE [val |-> P.isIdentity[1], self |-> P]

\* periodicInterval with "self._c > self._b" for "self._c > self._b + 1".
periodicIntervalOverlapping(P) ==
    IF P.periodicInterval = <<>>
    THEN IF ~P.preserving \/ P.c > P.b
         THEN [val |-> <<>>, self |-> [P EXCEPT !.periodicInterval = << <<>> >>]]
         ELSE LET t == translationDistance(P)
                  v == IF t.val = 0 THEN <<>> ELSE <<P.a, P.d, t.val>>
              IN  [val |-> v,
                   self |-> [t.self EXCEPT !.periodicInterval = <<v>>]]
    ELSE [val |-> P.periodicInterval[1], self |-> P]

\* Pairing.periodicInterval(); the empty tuple is <<>>.
periodicInterval(P) ==
    IF P.periodicInterval = <<>>
    THEN IF ~P.preserving \/ P.c > P.b + 1
         THEN [val |-> <<>>, self |-> [P EXCEPT !.periodicInterval = << <<>> >>]]
         ELSE LET t == translationDistance(P)
                  v == IF t.val = 0 THEN <<>> ELSE <<P.a, P.d, t.val>>
              IN  [val |-> v,
                   self |-> [t.self EXCEPT !.periodicInterval = <<v>>]]
    ELSE [val |-> P.periodicInterval[1], self |-> P]

domainStart(P) == P.a

rangeStart(P) == P.c

\* Pairing.rangeEnd(), as src/testpairing.py uses it.
rangeEnd(P) == P.d

\* Pairing.rangeContains( start, width )
rangeContains(P, start, width) ==
    LET end == start + width - 1
    IN  start >= P.c /\ end <= P.d

\* Pairing.inverseImageStart( start, width ), as src/testpairing.py expects
\* it: None unless the range contains [start,end], else the start point of
\* the inverse image of [start,end].
inverseImageStart(P, start, width) ==
    IF ~rangeContains(P, start, width) THEN None
    ELSE IF P.preserving THEN start - (P.c - P.a)
    ELSE P.a + P.d - (start + width - 1)

\* trim with "self._b <= self._c" for "self._b < self._c".
trimUnlessEqual(P) ==
    IF P.preserving \/ P.b <= P.c THEN [val |-> FALSE, self |-> P]
    ELSE [val |-> TRUE,
          self |-> resetCache([P EXCEPT !.b = (P.a + P.d - 1) \div 2,
                                        !.c = (P.a + P.d + 2) \div 2])]

\* trim that rounds the new domain end up.
trimCeil(P) ==
    IF P.preserving \/ P.b < P.c THEN [val |-> FALSE, self |-> P]
    ELSE [val |-> TRUE,
          self |-> resetCache([P EXCEPT !.b = (P.a + P.d) \div 2,
                                        !.c = (P.a + P.d + 2) \div 2])]

\* Pairing.trim()
trim(P) ==
    IF P.preserving \/ P.b < P.c THEN [val |-> FALSE, self |-> P]
    ELSE [val |-> TRUE,
          self |-> resetCache([P EXCEPT !.b = (P.a + P.d - 1) \div 2,
                                        !.c = (P.a + P.d + 2) \div 2])]

\* Pairing.__eq__( other )
eq(P, other) ==
    /\ P.a = other.a
    /\ P.c = other.c
    /\ pairingWidth(P).val = pairingWidth(other).val
    /\ P.preserving = other.preserving

\* Pairing.clone(): the clone, and this pairing with its width cached.
clone(P) ==
    [val |-> Pairing(P.a, P.c, pairingWidth(P).val, P.preserving),
     self |-> pairingWidth(P).self]

\* Pairing._contractImpl( start, width ); <<>> stands for None.
contractImpl(P, start, width) ==
    LET end == start + width - 1
    IN  IF end < P.a THEN <<TRUE, TRUE>>
        ELSE IF start > P.b /\ end < P.c THEN <<FALSE, TRUE>>
        ELSE IF start > P.d THEN <<FALSE, FALSE>>
        ELSE <<>>

\* Pairing.isDisjointFrom( start, width )
isDisjointFrom(P, start, width) == contractImpl(P, start, width) # <<>>

\* Pairing.contract( start, width ); the cache is left as it is.
contract(P, start, width) ==
    LET instructions == contractImpl(P, start, width)
    IN  IF instructions = <<>> THEN [val |-> FALSE, self |-> P]
        ELSE LET shiftDom == instructions[1]
                 shiftRan == instructions[2]
                 shifted == IF shiftDom
                            THEN [P EXCEPT !.a = P.a - width,
                                           !.b = P.b - width]
                            ELSE P
             IN  [val |-> TRUE,
                  self |-> IF shiftRan
                           THEN [shifted EXCEPT !.c = P.c - width,
                                                !.d = P.d - width]
                           ELSE shifted]

\* truncate with "newBound > self._d" for "newBound >= self._d".
truncateInclusive(P, newBound) ==
    IF newBound < P.c \/ newBound > P.d THEN [val |-> FALSE, self |-> P]
    ELSE IF P.preserving
    THEN [val |-> TRUE,
          self |-> resetCache([P EXCEPT !.b = P.b - (P.d - newBound),
                                        !.d = newBound])]
    ELSE IF P.c <= P.b THEN [val |-> FALSE, self |-> P]
    ELSE [val |-> TRUE,
          self |-> resetCache([P EXCEPT !.a = P.a + (P.d - newBound),
                                        !.d = newBound])]

\* truncate that leaves the domain of a Preserving pairing as it is.
truncateRangeOnly(P, newBound) ==
    IF newBound < P.c \/ newBound >= P.d THEN [val |-> FALSE, self |-> P]
    ELSE IF P.preserving
    THEN [val |-> TRUE, self |-> resetCache([P EXCEPT !.d = newBound])]
    ELSE IF P.c <= P.b THEN [val |-> FALSE, self |-> P]
    ELSE [val |-> TRUE,
          self |-> resetCache([P EXCEPT !.a = P.a + (P.d - newBound),
                                        !.d = newBound])]

\* Pairing.truncate( newBound )
truncate(P, newBound) ==
    IF newBound < P.c \/ newBound >= P.d THEN [val |-> FALSE, self |-> P]
    ELSE IF P.preserving
    THEN [val |-> TRUE,
          self |-> resetCache([P EXCEPT !.b = P.b - (P.d - newBound),
                                        !.d = newBound])]
    ELSE IF P.c <= P.b THEN [val |-> FALSE, self |-> P]
    ELSE [val |-> TRUE,
          self |-> resetCache([P EXCEPT !.a = P.a + (P.d - newBound),
                                        !.d = newBound])]

\* math.gcd
RECURSIVE gcd(_, _)
gcd(m, n) == IF n = 0 THEN m ELSE gcd(n, m % n)

\* Pairing._setPeriodic( start, end, period )
setPeriodic(start, end, period) ==
    LET c == start + period
    IN  setPairing(start, c, end - c + 1, TRUE)

\* periodicPairing with "period > (end - start) // 2".
periodicPairingShort(start, end, period) ==
    IF period > (end - start) \div 2 THEN <<>>
    ELSE <<setPeriodic(start, end, period)>>

\* periodicPairing( start, end, period ): <<>> stands for None, <<P>> for
\* the pairing P.
periodicPairing(start, end, period) ==
    IF period > (end - start + 1) \div 2 THEN <<>>
    ELSE <<setPeriodic(start, end, period)>>

\* mergeWith that sets the merged pairing before it tests the overlap.
mergeWithEager(P, other) ==
    LET mine == periodicInterval(P)
        theirs == periodicInterval(other)
    IN  IF mine.val = <<>>
        THEN [val |-> FALSE, self |-> mine.self, other |-> other]
        ELSE IF theirs.val = <<>>
        THEN [val |-> FALSE, self |-> mine.self, other |-> theirs.self]
        ELSE LET myStart == mine.val[1]
                 myEnd == mine.val[2]
                 myPeriod == mine.val[3]
                 yourStart == theirs.val[1]
                 yourEnd == theirs.val[2]
                 yourPeriod == theirs.val[3]
                 overlapWidth == Min(myEnd, yourEnd) - Max(myStart, yourStart) + 1
             IN  [val |-> overlapWidth >= myPeriod + yourPeriod,
                  self |-> setPeriodic(Min(myStart, yourStart),
                                       Max(myEnd, yourEnd),
                                       gcd(myPeriod, yourPeriod)),
                  other |-> theirs.self]

\* Pairing.mergeWith( other ): the result, this pairing and the other
\* pairing as the call leaves them.
mergeWith(P, other) ==
    LET mine == periodicInterval(P)
        theirs == periodicInterval(other)
    IN  IF mine.val = <<>>
        THEN [val |-> FALSE, self |-> mine.self, other |-> other]
        ELSE IF theirs.val = <<>>
        THEN [val |-> FALSE, self |-> mine.self, other |-> theirs.self]
        ELSE LET myStart == mine.val[1]
                 myEnd == mine.val[2]
                 myPeriod == mine.val[3]
                 yourStart == theirs.val[1]
                 yourEnd == theirs.val[2]
                 yourPeriod == theirs.val[3]
                 overlapWidth == Min(myEnd, yourEnd) - Max(myStart, yourStart) + 1
             IN  IF overlapWidth < myPeriod + yourPeriod
                 THEN [val |-> FALSE, self |-> mine.self,
                       other |-> theirs.self]
                 ELSE [val |-> TRUE,
                       self |-> setPeriodic(Min(myStart, yourStart),
                                            Max(myEnd, yourEnd),
                                            gcd(myPeriod, yourPeriod)),
                       other |-> theirs.self]

\* transmitBy without the call of other.trim().
transmitByUntrimmed(P, other) ==
    LET w == pairingWidth(P)
    IN  IF ~rangeContains(other, rangeStart(P), w.val)
        THEN [val |-> <<FALSE>>, self |-> w.self, other |-> other]
        ELSE [val |-> <<>>, self |-> w.self, other |-> other]

\* Pairing.transmitBy( other ): the result (<<>> stands for None, <<v>> for
\* the boolean v), this pairing and the other pairing as the call leaves
\* them.  Past the containment test the routine only passes, and ends
\* without a return statement.
transmitBy(P, other) ==
    LET trimmed == trim(other).self
        w == pairingWidth(P)
    IN  IF ~rangeContains(trimmed, rangeStart(P), w.val)
        THEN [val |-> <<FALSE>>, self |-> w.self, other |-> trimmed]
        ELSE [val |-> <<>>, self |-> w.self, other |-> trimmed]

\* ---------------------------------------------------------------- Pairings
\* deleteLoop without the assignment
\* "self._pairings[i] = self._pairings[-1]".
RECURSIVE deleteLoopPopOnly(_, _)
deleteLoopPopOnly(L, i) ==
    IF i < 0 THEN L
    ELSE LET identity == isIdentity(L[i + 1])
             queried == SetAt(L, i, identity.self)
         IN  IF identity.val
             THEN deleteLoopPopOnly(Pop(queried, Len(queried) - 1), i - 1)
             ELSE deleteLoopPopOnly(queried, i - 1)

\* The loop "for i in range( self.order() - 1, -1, -1 )" of
\* Pairings.deleteIdentityPairings, from index i down; isIdentity() fills
\* the cache of the pairing it is called on.
RECURSIVE deleteLoop(_, _)
deleteLoop(L, i) ==
    IF i < 0 THEN L
    ELSE LET identity == isIdentity(L[i + 1])
             queried == SetAt(L, i, identity.self)
         IN  IF identity.val
             THEN deleteLoop(Pop(SetAt(queried, i, queried[Len(queried)]),
                                 Len(queried) - 1), i - 1)
             ELSE deleteLoop(queried, i - 1)

\* Pairings.deleteIdentityPairings()
deleteIdentityPairings(L) == deleteLoop(L, Len(L) - 1)

\* ------------------------------------------------------------- transferBy
\* An entry ( weight, start, width ) of transferInstructions.
Instruction(weight, start, width) ==
    [weight |-> weight, start |-> start, width |-> width]

\* The while loop of the non-periodic case.  It is entered with
\* ( i, _, end, weight ) as _findSubinterval returned them.
RECURSIVE nonPeriodicLoop(_, _, _, _, _, _, _)
nonPeriodicLoop(W, P, i, start, end, weight, instructions) ==
    IF ~(start <= rangeEnd(P)) THEN instructions
    ELSE LET width == end - start + 1
             inverseStart == inverseImageStart(P, start, width)
             appended == Append(instructions,
                                Instruction(weight, inverseStart, width))
         IN  IF i + 1 >= Len(W) THEN appended
             ELSE LET nextEnd == W[i + 2].end
                  IN  nonPeriodicLoop(W, P, i + 1, end + 1,
                          IF nextEnd > rangeEnd(P) THEN rangeEnd(P)
                          ELSE nextEnd,
                          W[i + 2].w, appended)

\* The instructions one constant-weight subinterval adds in the periodic
\* case.
periodicInstructions(weight, a, period, start, width) ==
    LET aMod == a % period
        whole == <<Instruction([k \in 1..Len(weight) |->
                                   (width \div period) * weight[k]],
                               a, period)>>
        remainder == width % period
        extraStart == (start - aMod) % period
        extraEnd == (extraStart + remainder - 1) % period
    IN  IF remainder > 0
        THEN IF extraStart <= extraEnd
             THEN whole \o <<Instruction(weight, a + extraStart, remainder)>>
             ELSE whole \o <<Instruction(weight, a, extraEnd + 1),
                             Instruction(weight, a + extraStart,
                                         period - extraStart)>>
        ELSE whole

\* The while loop of the periodic case.
RECURSIVE periodicLoop(_, _, _, _, _, _, _, _)
periodicLoop(W, P, period, i, start, end, weight, instructions) ==
    IF ~(start <= rangeEnd(P)) THEN instructions
    ELSE LET width == end - start + 1
             appended == instructions \o
                 periodicInstructions(weight, domainStart(P), period,
                                      start, width)
         IN  IF i + 1 >= Len(W) THEN appended
             ELSE LET nextEnd == W[i + 2].end
                  IN  periodicLoop(W, P, period, i + 1, end + 1,
                          IF nextEnd > rangeEnd(P) THEN rangeEnd(P)
                          ELSE nextEnd,
                          W[i + 2].w, appended)

\* "for weight, start, width in transferInstructions: self.addWeight(...)",
\* from instruction k on.  A start of None makes _findSubinterval raise
\* TypeError at "x <= previousEnd", which ends the call.
RECURSIVE applyInstructions(_, _, _, _)
applyInstructions(W, d, instructions, k) ==
    IF k > Len(instructions) THEN [weights |-> W, err |-> "none"]
    ELSE IF instructions[k].start = None
         THEN [weights |-> W, err |-> "TypeError"]
         ELSE applyInstructions(
                  addWeight(W, d, instructions[k].weight,
                            instructions[k].start, instructions[k].width,
                            0).weights,
                  d, instructions, k + 1)

\* transferBy without the early return for identity pairings.
transferByAlways(W, d, P) ==
    IF isEmpty(W) THEN [weights |-> W, pairing |-> P, err |-> "none"]
    ELSE
    LET trimmed == trim(P).self
        interval == periodicInterval(trimmed)
        Q == interval.self
        data == findSubinterval(W, rangeStart(Q), 0)
        instructions ==
            IF interval.val = <<>>
            THEN nonPeriodicLoop(W, Q, data.i, rangeStart(Q), data.q,
                                 data.w, <<>>)
            ELSE periodicLoop(W, Q, interval.val[3], data.i, rangeStart(Q),
                              data.q, data.w, <<>>)
        zeroed == setZero(W, d, rangeStart(Q), pairingWidth(Q).val, 0).weights
        applied == applyInstructions(zeroed, d, instructions, 1)
    IN  IF ~data.found
        THEN [weights |-> W, pairing |-> Q, err |-> "TypeError"]
        ELSE [weights |-> applied.weights, pairing |-> pairingWidth(Q).self,
              err |-> applied.err]

\* Weights.transferBy( pairing ): the new run list, the pairing as the call
\* leaves it, and the exception that ended the call, if any.
transferBy(W, d, P) ==
    IF isEmpty(W) THEN [weights |-> W, pairing |-> P, err |-> "none"]
    ELSE IF isIdentity(P).val
    THEN [weights |-> W, pairing |-> isIdentity(P).self, err |-> "none"]
    ELSE
    LET trimmed == trim(isIdentity(P).self).self
        interval == periodicInterval(trimmed)
        Q == interval.self
        data == findSubinterval(W, rangeStart(Q), 0)
        instructions ==
            IF interval.val = <<>>
            THEN nonPeriodicLoop(W, Q, data.i, rangeStart(Q), data.q,
                                 data.w, <<>>)
            ELSE periodicLoop(W, Q, interval.val[3], data.i, rangeStart(Q),
                              data.q, data.w, <<>>)
        zeroed == setZero(W, d, rangeStart(Q), pairingWidth(Q).val, 0).weights
        applied == applyInstructions(zeroed, d, instructions, 1)
    IN  IF ~data.found
        THEN [weights |-> W, pairing |-> Q, err |-> "TypeError"]
        ELSE [weights |-> applied.weights, pairing |-> pairingWidth(Q).self,
              err |-> applied.err]

\* ------------------------------------------------------------------ state
VARIABLES
    weights,    \* self._weights of the weight map
    dim,        \* self._dim of the weight map
    total,      \* the number of points the map was built over
    prev,       \* self._weights as the recorded call found it
    last,       \* the recorded call: its name, arguments and result
    given,      \* the Pairing of the recorded call, before the call
    pairing,    \* the Pairing handed to transferBy or called upon
    err,        \* the exception that ended the recorded call, or "none"
    pairings    \* self._pairings of the pseudogroup of pairings

vars == <<weights, dim, total, prev, last, given, pairing, err, pairings>>

\* The weight vectors of dimension d a map may hold.
Vectors(d) == [1..d -> 0..MaxVal]

\* The summands of dimension d handed to addWeight: the vectors of zeros
\* and ones, and their negations.
Negate(v) == [k \in 1..Len(v) |-> 0 - v[k]]
Summands(d) == [1..d -> 0..1] \cup {Negate(v) : v \in [1..d -> 0..1]}

\* All initialiser lists ( width<i>, weight<i> ) of total width n.
RECURSIVE Data(_, _)
Data(n, d) ==
    IF n = 0 THEN {<<>>}
    ELSE UNION {{<<<<w, v>>>> \o rest : v \in Vectors(d),
                                       rest \in Data(n - w, d)} : w \in 1..n}

InRange(W) == \A k \in 1..Len(W) : \A j \in 1..Len(W[k].w) :
                  W[k].w[j] \in 0..MaxVal

Call(op, weight, start, width, index, ret) ==
    [op |-> op, weight |-> weight, start |-> start, width |-> width,
     index |-> index, ret |-> ret]

\* A call of which only the name is recorded.
Named(op) == Call(op, <<>>, 0, 0, 0, None)

\* weights = Weights( data ) for well-formed data of total width at most
\* maxLength, or Weights().
Constructed(maxLength) ==
    \E d \in 1..MaxDim, n \in 0..maxLength :
        \E data \in Data(n, d) :
            /\ weights = WeightsInit(data).weights
            /\ dim = WeightsInit(data).dim
            /\ total = n
            /\ prev = <<>>
            /\ last = Named("init")
            /\ given = Pairing(1, 1, 1, TRUE)
            /\ pairing = Pairing(1, 1, 1, TRUE)
            /\ err = "none"
            /\ pairings = <<>>

Init == Constructed(MaxN)

\* The arguments a caller may hand to setZero and addWeight: an interval
\* inside [1, N], or the point N + 1 that no subinterval contains, and a
\* search index below the number of subintervals.
Starts(W) == 1..(intervalLength(W) + 1)
Widths(W, start) == 1..Max(1, intervalLength(W) - start + 1)
Indices(W) == 0..Max(0, countSubintervals(W) - 1)

\* ---- Spec: any sequence of setZero and addWeight calls on a map.
\* weights.setZero( start, width, index )
SetZero ==
    \E start \in Starts(weights) :
      \E width \in Widths(weights, start), index \in Indices(weights) :
        /\ weights' = setZero(weights, dim, start, width, index).weights
        /\ last' = Named("setZero")
        /\ UNCHANGED <<dim, total, prev, given, pairing, err, pairings>>

\* weights.addWeight( weight, start, width, index )
AddWeight ==
    \E start \in Starts(weights), weight \in Summands(dim) :
      \E width \in Widths(weights, start), index \in Indices(weights) :
        LET r == addWeight(weights, dim, weight, start, width, index)
        IN  /\ InRange(r.weights)
            /\ weights' = r.weights
            /\ last' = Named("addWeight")
            /\ UNCHANGED <<dim, total, prev, given, pairing, err, pairings>>

Next == SetZero \/ AddWeight

Spec == Init /\ [][Next]_vars

\* ---- SpecCall: one call on a constructed map, recorded with its
\* arguments and result, and the same call made a second time.
CallSetZero ==
    /\ last.op = "init"
    /\ \E start \in Starts(weights) :
        \E width \in Widths(weights, start), index \in Indices(weights) :
          LET r == setZero(weights, dim, start, width, index)
          IN  /\ weights' = r.weights
              /\ prev' = weights
              /\ last' = Call("setZero", <<>>, start, width, index, r.ret)
              /\ UNCHANGED <<dim, total, given, pairing, err, pairings>>

CallAddWeight ==
    /\ last.op = "init"
    /\ \E start \in Starts(weights), weight \in Summands(dim) :
        \E width \in Widths(weights, start), index \in Indices(weights) :
          LET r == addWeight(weights, dim, weight, start, width, index)
          IN  /\ InRange(r.weights)
              /\ weights' = r.weights
              /\ prev' = weights
              /\ last' = Call("addWeight", weight, start, width, index, r.ret)
              /\ UNCHANGED <<dim, total, given, pairing, err, pairings>>

\* weights.setZero( start, width ) once more, right after
\* weights.setZero( start, width ); prev is the map between the two calls.
SetZeroAgain ==
    /\ last.op = "setZero"
    /\ last.index = 0
    /\ last.start <= intervalLength(prev)
    /\ LET r == setZero(weights, dim, last.start, last.width, 0)
       IN  /\ weights' = r.weights
           /\ prev' = weights
           /\ last' = [last EXCEPT !.op = "setZeroAgain", !.ret = r.ret]
           /\ UNCHANGED <<dim, total, given, pairing, err, pairings>>

\* weights.addWeight( negate(w), s, k ) right after
\* weights.addWeight( w, s, k ); prev stays the map before the first call.
AddWeightBack ==
    /\ last.op = "addWeight"
    /\ last.index = 0
    /\ last.start <= intervalLength(prev)
    /\ LET r == addWeight(weights, dim, Negate(last.weight), last.start,
                          last.width, 0)
       IN  /\ weights' = r.weights
           /\ last' = [last EXCEPT !.op = "addWeightBack", !.ret = r.ret]
           /\ UNCHANGED <<dim, total, prev, given, pairing, err, pairings>>

NextCall == CallSetZero \/ CallAddWeight \/ SetZeroAgain \/ AddWeightBack

SpecCall == Init /\ [][NextCall]_vars

\* ---- SpecExtend: one extend call on a constructed map.
\* weights.extend( width, weight ), for a weight of any dimension.
Extend ==
    /\ last.op = "init"
    /\ \E width \in 1..MaxN, d \in 1..MaxDim :
        \E weight \in Vectors(d) :
          /\ weights' = extend(weights, width, weight)
          /\ total' = total + width
          /\ prev' = weights
          /\ last' = Call("extend", weight, 0, width, 0, None)
          /\ UNCHANGED <<dim, given, pairing, err, pairings>>

NextExtend == Extend

SpecExtend == Init /\ [][NextExtend]_vars

\* ---- SpecTransfer: one transferBy call on a constructed map.
\* The pairings Pairing( a, c, width, preserving ) whose range lies in
\* [1, n].
PairingsWithin(n) ==
    {Pairing(a, c, width, preserving) :
        a \in 1..n, c \in 1..n, width \in 1..n, preserving \in BOOLEAN}

\* weights.transferBy( P ) for a pairing whose range lies inside the map,
\* or any pairing when the map is empty.
TransferBy ==
    /\ last.op = "init"
    /\ \E P \in PairingsWithin(MaxN + 1) :
        /\ isEmpty(weights) \/ rangeEnd(P) <= intervalLength(weights)
        /\ LET r == transferBy(weights, dim, P)
           IN  /\ weights' = r.weights
               /\ pairing' = r.pairing
               /\ err' = r.err
               /\ given' = P
               /\ prev' = weights
               /\ last' = Named("transferBy")
               /\ UNCHANGED <<dim, total, pairings>>

NextTransfer == TransferBy

InitTransfer == Constructed(MaxN + 1)

SpecTransfer == InitTransfer /\ [][NextTransfer]_vars

\* ----------------------------------------------------------------- claims
\* The weight the run list W assigns to the point x: that of the first
\* subinterval ending at or after x.
WeightAt(W, x) ==
    IF \A k \in 1..Len(W) : W[k].end < x THEN <<>>
    ELSE W[CHOOSE k \in 1..Len(W) :
               /\ x <= W[k].end
               /\ \A j \in 1..(k - 1) : W[j].end < x].w

Between(x, start, width) == start <= x /\ x <= start + width - 1

\* The maximally compressed run list of the function f on 1..n.
Compressed(f, n) ==
    WeightsInit([x \in 1..n |-> <<1, f[x]>>]).weights

\* C1: after construction from well-formed data and after any sequence of
\* setZero and addWeight calls within their preconditions, the run
\* end-points are strictly increasing, the last one is the sum of the
\* constructor widths, and no two adjacent runs carry equal vectors.
C1_MaximallyCompressed ==
    /\ \A k \in 1..Len(weights) :
           weights[k].end > (IF k = 1 THEN 0 ELSE weights[k - 1].end)
    /\ intervalLength(weights) = total
    /\ \A k \in 1..(Len(weights) - 1) : weights[k].w # weights[k + 1].w

\* A map of several runs that a setZero or addWeight call has produced.
C1_Witness ==
    /\ last.op \in {"setZero", "addWeight"}
    /\ countSubintervals(weights) = 3
    /\ total = MaxN
    /\ weights[2].w = ZeroVector(dim)

\* C5: a setZero( start, width, index ) that finds its run maps every
\* point of [start, start+width-1] to the zero vector and leaves every
\* other point of 1..intervalLength with its previous vector; the interval
\* length and the dimension of the vectors are unchanged.
C5_SetZeroPointwise ==
    (last.op = "setZero" /\ last.ret # None) =>
        /\ intervalLength(weights) = intervalLength(prev)
        /\ \A k \in 1..Len(weights) : Len(weights[k].w) = dim
        /\ \A x \in 1..intervalLength(prev) :
               WeightAt(weights, x) =
                   IF Between(x, last.start, last.width)
                   THEN ZeroVector(dim)
                   ELSE WeightAt(prev, x)

\* setZero has zeroed the inside of a non-zero run, splitting it in three.
C5_Witness ==
    /\ last.op = "setZero"
    /\ last.ret # None
    /\ countSubintervals(prev) = 1
    /\ countSubintervals(weights) = 3

\* C6: an addWeight( weight, start, width, index ) that finds its run adds
\* weight to the vector of every point of [start, start+width-1] and
\* leaves every other point alone, and the run list is the maximally
\* compressed one of the updated function.
C6_AddWeightPointwise ==
    (last.op = "addWeight" /\ last.ret # None) =>
        LET n == intervalLength(prev)
            updated == [x \in 1..n |->
                            IF Between(x, last.start, last.width)
                            THEN [k \in 1..dim |->
                                      WeightAt(prev, x)[k] + last.weight[k]]
                            ELSE WeightAt(prev, x)]
        IN  /\ intervalLength(weights) = n
            /\ \A x \in 1..n : WeightAt(weights, x) = updated[x]
            /\ weights = Compressed(updated, n)

\* addWeight has merged the runs it touched with a neighbour.
C6_Witness ==
    /\ last.op = "addWeight"
    /\ last.ret # None
    /\ last.weight # ZeroVector(dim)
    /\ countSubintervals(prev) = 3
    /\ countSubintervals(weights) = 1

\* C8: setZero and addWeight called with search index i return None and
\* leave the map unchanged when start is not strictly greater than the end
\* of run i-1 or exceeds the interval length; otherwise they return the
\* index, in the run list before the call, of the run containing start.
C8_SearchIndex ==
    (last.op \in {"setZero", "addWeight"}) =>
        LET previousEnd == IF last.index = 0 THEN 0 ELSE prev[last.index].end
        IN  IF last.start <= previousEnd \/ last.start > intervalLength(prev)
            THEN last.ret = None /\ weights = prev
            ELSE /\ last.ret \in 0..(Len(prev) - 1)
                 /\ last.start <= prev[last.ret + 1].end
                 /\ last.ret > 0 => prev[last.ret].end < last.start

\* A search from an index past the run containing start has failed.
C8_Witness ==
    /\ last.op \in {"setZero", "addWeight"}
    /\ last.index > 0
    /\ last.start <= prev[last.index].end
    /\ last.ret = None

\* C9: setZero( start, width ) called twice in a row leaves exactly the
\* run list that the first call left.
C9_SetZeroIdempotent ==
    (last.op = "setZeroAgain") => weights = prev

\* The second setZero has run on a map the first one had changed.
C9_Witness ==
    /\ last.op = "setZeroAgain"
    /\ countSubintervals(weights) = 3
    /\ weights[2].w = ZeroVector(dim)

\* C10: addWeight( w, s, k ) followed by addWeight( negate(w), s, k ), for
\* a non-zero w, restores exactly the run list that existed before the
\* first call.
C10_AddWeightRoundTrip ==
    (last.op = "addWeightBack" /\ last.weight # ZeroVector(dim)) =>
        weights = prev

\* The round trip has run where the first call merged runs.
C10_Witness ==
    /\ last.op = "addWeightBack"
    /\ last.weight # ZeroVector(dim)
    /\ countSubintervals(prev) = 3
    /\ weights = prev

\* ------------------------------------------------- claims on transferBy
\* The component-wise sum of the weights W assigns to the points of S.
RECURSIVE SumOver(_, _, _)
SumOver(W, S, d) ==
    IF S = {} THEN ZeroVector(d)
    ELSE LET x == CHOOSE y \in S : TRUE
             rest == SumOver(W, S \ {x}, d)
         IN  [k \in 1..d |-> WeightAt(W, x)[k] + rest[k]]

\* The image of the point x of the domain of Q under Q.
ImageOf(Q, x) ==
    IF Q.preserving THEN x + (Q.c - Q.a) ELSE Q.a + Q.d - x

\* The orbit class of Q in 1..n that contains the set S, for a Q whose
\* range lies in 1..n: the closure of S under Q and its inverse.
RECURSIVE OrbitClass(_, _)
OrbitClass(Q, S) ==
    LET forward == {ImageOf(Q, x) : x \in S \cap (Q.a..Q.b)}
        backward == {y \in Q.a..Q.b : ImageOf(Q, y) \in S}
        T == S \cup forward \cup backward
    IN  IF T = S THEN S ELSE OrbitClass(Q, T)

\* transferBy has run on a non-empty map with a non-identity pairing whose
\* trimmed form has a domain and a range of at least one point.
Transferred ==
    /\ last.op = "transferBy"
    /\ ~isEmpty(prev)
    /\ ~(given.preserving /\ given.a = given.c)
    /\ pairing.a <= pairing.b

\* C2: for every non-identity pairing p and non-empty map w whose length
\* is at least p's range end, w.transferBy(p) leaves the sum of the
\* weights of every orbit class of the trimmed p unchanged and every point
\* of the trimmed p's range with the zero vector.
C2_OrbitWeightConserved ==
    Transferred =>
        /\ err = "none"
        /\ \A x \in 1..intervalLength(prev) :
               SumOver(weights, OrbitClass(pairing, {x}), dim) =
               SumOver(prev, OrbitClass(pairing, {x}), dim)
        /\ \A x \in pairing.c..pairing.d :
               WeightAt(weights, x) = ZeroVector(dim)

\* The trimmed pairing has no periodic interval.
NonPeriodic(Q) == ~Q.preserving \/ Q.c > Q.b + 1

\* C3: non-periodic transferBy, for every run layout of a map at least as
\* long as the range end d: each point x of the range [c,d] ends with zero
\* weight, its preimage with its old weight plus the old weight of x, and
\* every point outside [a,b] and [c,d] with its old weight.
C3_NonPeriodicTransfer ==
    (Transferred /\ NonPeriodic(pairing)) =>
        /\ err = "none"
        /\ \A x \in pairing.c..pairing.d :
               LET y == IF pairing.preserving
                        THEN x - (pairing.c - pairing.a)
                        ELSE pairing.a + pairing.d - x
               IN  /\ WeightAt(weights, x) = ZeroVector(dim)
                   /\ WeightAt(weights, y) =
                          [k \in 1..dim |->
                              WeightAt(prev, y)[k] + WeightAt(prev, x)[k]]
        /\ \A x \in 1..intervalLength(prev) :
               (x \notin pairing.a..pairing.b /\ x \notin pairing.c..pairing.d)
                   => WeightAt(weights, x) = WeightAt(prev, x)

\* C4: periodic transferBy with periodic interval (s,e,p), for every run
\* layout of a map at least as long as e: each point x of [s, s+p-1] ends
\* with the sum of the old weights of the points of [s,e] congruent to x
\* modulo p, every point of [s+p, e] with zero weight, and every point
\* outside [s,e] with its old weight.
C4_PeriodicTransfer ==
    (Transferred /\ ~NonPeriodic(pairing)) =>
        LET s == pairing.a
            e == pairing.d
            p == pairing.c - pairing.a
        IN  /\ err = "none"
            /\ \A x \in s..(s + p - 1) :
                   WeightAt(weights, x) =
                       SumOver(prev, {y \in s..e : y % p = x % p}, dim)
            /\ \A x \in (s + p)..e : WeightAt(weights, x) = ZeroVector(dim)
            /\ \A x \in 1..intervalLength(prev) :
                   (x < s \/ x > e) => WeightAt(weights, x) = WeightAt(prev, x)

\* The pairings P and Q have the same endpoints and orientation.
SameEndpoints(P, Q) ==
    /\ P.a = Q.a
    /\ P.b = Q.b
    /\ P.c = Q.c
    /\ P.d = Q.d
    /\ P.preserving = Q.preserving

\* C12: transferBy on an empty map, or with an identity pairing, raises
\* nothing and leaves the run list and the pairing's endpoints and
\* orientation as they were.
C12_TransferNoOp ==
    (last.op = "transferBy"
        /\ (isEmpty(prev) \/ (given.preserving /\ given.a = given.c))) =>
        /\ err = "none"
        /\ weights = prev
        /\ SameEndpoints(pairing, given)

\* transferBy has run with an identity pairing of width 2 on a map of
\* several runs, one of which crosses the end of the pairing's range.
C12_Witness ==
    /\ last.op = "transferBy"
    /\ countSubintervals(prev) >= 2
    /\ given.preserving
    /\ given.a = given.c
    /\ given.b = given.a + 1
    /\ WeightAt(prev, given.d) = WeightAt(prev, given.d + 1)

\* C13: after transferBy on a non-empty map with a non-identity pairing
\* p, whether or not the call raised, p has the orientation it had, and
\* its endpoints are those trim() gives: for a Reversing p with b >= c,
\* a and d as before, b = floor((a+d-1)/2) and c = floor((a+d+2)/2);
\* otherwise all four as before.
C13_TransferTrims ==
    (last.op = "transferBy" /\ ~isEmpty(prev)
        /\ ~(given.preserving /\ given.a = given.c)) =>
        /\ pairing.preserving = given.preserving
        /\ pairing.a = given.a
        /\ pairing.d = given.d
        /\ IF ~given.preserving /\ given.b >= given.c
           THEN /\ pairing.b = (given.a + given.d - 1) \div 2
                /\ pairing.c = (given.a + given.d + 2) \div 2
           ELSE /\ pairing.b = given.b
                /\ pairing.c = given.c

\* transferBy has trimmed a Reversing pairing whose domain and range
\* overlapped in an odd number of points, and has completed.
C13_Witness ==
    /\ last.op = "transferBy"
    /\ ~isEmpty(prev)
    /\ err = "none"
    /\ ~given.preserving
    /\ given.b >= given.c
    /\ (given.a + given.d) % 2 = 0
    /\ pairing.b < given.b
    /\ weights # prev

PairingStarts == 1..(2 * MaxP)
PairingWidths == 1..MaxP

\* A recorded call on the pairing: its name, its arguments (other is the
\* argument of mergeWith before the call, after the same object after it)
\* and its result.
PairingCall(op, start, width, other, after, ret) ==
    [op |-> op, start |-> start, width |-> width, other |-> other,
     after |-> after, ret |-> ret]

\* A recorded call of a function of pairings: its name, its arguments and
\* its result.
FunctionCall(op, args, ret) == [op |-> op, args |-> args, ret |-> ret]

\* pairing = Pairing( a, c, width, preserving )
InitPairing ==
    /\ weights = <<>>
    /\ dim = None
    /\ total = 0
    /\ prev = <<>>
    /\ err = "none"
    /\ pairings = <<>>
    /\ last = Named("init")
    /\ pairing \in PairingsWithin(MaxP)
    /\ given = pairing

\* The record of a call: the call itself if it is observed, else the
\* record as it was.
Recorded(observed, call) == IF observed THEN call ELSE last

\* pairing.contract( start, width )
Contract ==
    /\ last.op = "init"
    /\ \E start \in PairingStarts, width \in PairingWidths, observed \in BOOLEAN :
        LET r == contract(pairing, start, width)
        IN  /\ pairing' = r.self
            /\ last' = Recorded(observed,
                   PairingCall("contract", start, width, pairing, pairing, r.val))
            /\ given' = IF observed THEN pairing ELSE given
    /\ UNCHANGED <<weights, dim, total, prev, err, pairings>>

\* pairing.isDisjointFrom( start, width )
IsDisjointFrom ==
    /\ last.op = "init"
    /\ \E start \in PairingStarts, width \in PairingWidths, observed \in BOOLEAN :
        /\ pairing' = pairing
        /\ last' = Recorded(observed,
               PairingCall("isDisjointFrom", start, width, pairing, pairing,
                          isDisjointFrom(pairing, start, width)))
        /\ given' = IF observed THEN pairing ELSE given
    /\ UNCHANGED <<weights, dim, total, prev, err, pairings>>

\* pairing.trim()
Trim ==
    /\ last.op = "init"
    /\ \E observed \in BOOLEAN :
        LET r == trim(pairing)
        IN  /\ pairing' = r.self
            /\ last' = Recorded(observed,
                   PairingCall("trim", 0, 0, pairing, pairing, r.val))
            /\ given' = IF observed THEN pairing ELSE given
    /\ UNCHANGED <<weights, dim, total, prev, err, pairings>>

\* pairing.truncate( newBound )
Truncate ==
    /\ last.op = "init"
    /\ \E newBound \in PairingStarts, observed \in BOOLEAN :
        LET r == truncate(pairing, newBound)
        IN  /\ pairing' = r.self
            /\ last' = Recorded(observed,
                   PairingCall("truncate", newBound, 0, pairing, pairing, r.val))
            /\ given' = IF observed THEN pairing ELSE given
    /\ UNCHANGED <<weights, dim, total, prev, err, pairings>>

\* pairing.mergeWith( other ) for a newly constructed other.
MergeWith ==
    /\ last.op = "init"
    /\ \E other \in PairingsWithin(MaxP), observed \in BOOLEAN :
        LET r == mergeWith(pairing, other)
        IN  /\ pairing' = r.self
            /\ last' = Recorded(observed,
                   PairingCall("mergeWith", 0, 0, other, r.other, r.val))
            /\ given' = IF observed THEN pairing ELSE given
    /\ UNCHANGED <<weights, dim, total, prev, err, pairings>>

\* pairing.width()
Width ==
    /\ last.op = "init"
    /\ \E observed \in BOOLEAN :
        LET r == pairingWidth(pairing)
        IN  /\ pairing' = r.self
            /\ last' = Recorded(observed,
                   PairingCall("width", 0, 0, pairing, pairing, r.val))
            /\ given' = IF observed THEN pairing ELSE given
    /\ UNCHANGED <<weights, dim, total, prev, err, pairings>>

\* pairing.translationDistance()
TranslationDistance ==
    /\ last.op = "init"
    /\ \E observed \in BOOLEAN :
        LET r == translationDistance(pairing)
        IN  /\ pairing' = r.self
            /\ last' = Recorded(observed,
                   PairingCall("translationDistance", 0, 0, pairing, pairing, r.val))
            /\ given' = IF observed THEN pairing ELSE given
    /\ UNCHANGED <<weights, dim, total, prev, err, pairings>>

\* pairing.isIdentity()
IsIdentity ==
    /\ last.op = "init"
    /\ \E observed \in BOOLEAN :
        LET r == isIdentity(pairing)
        IN  /\ pairing' = r.self
            /\ last' = Recorded(observed,
                   PairingCall("isIdentity", 0, 0, pairing, pairing, r.val))
            /\ given' = IF observed THEN pairing ELSE given
    /\ UNCHANGED <<weights, dim, total, prev, err, pairings>>

\* pairing.periodicInterval()
PeriodicInterval ==
    /\ last.op = "init"
    /\ \E observed \in BOOLEAN :
        LET r == periodicInterval(pairing)
        IN  /\ pairing' = r.self
            /\ last' = Recorded(observed,
                   PairingCall("periodicInterval", 0, 0, pairing, pairing, r.val))
            /\ given' = IF observed THEN pairing ELSE given
    /\ UNCHANGED <<weights, dim, total, prev, err, pairings>>

\* periodicPairing( s, e, p ) for the non-empty
\* ( s, e, p ) = pairing.periodicInterval(); always recorded.
RoundTrip ==
    /\ last.op = "init"
    /\ LET r == periodicInterval(pairing)
       IN  /\ r.val # <<>>
           /\ pairing' = r.self
           /\ given' = pairing
           /\ last' = FunctionCall("roundTrip", r.val,
                                   periodicPairing(r.val[1], r.val[2],
                                                   r.val[3]))
    /\ UNCHANGED <<weights, dim, total, prev, err, pairings>>

\* pairing.clone().mergeWith( other ), then
\* other.clone().mergeWith( pairing ), for a newly constructed other;
\* always recorded, with both results and both merged clones.
MergeBothWays ==
    /\ last.op = "init"
    /\ \E other \in PairingsWithin(MaxP) :
        LET mine == clone(pairing)
            there == mergeWith(mine.val, other)
            yours == clone(there.other)
            back == mergeWith(yours.val, mine.self)
        IN  /\ pairing' = back.other
            /\ given' = pairing
            /\ last' = FunctionCall("mergeBothWays", <<other>>,
                                    [there |-> there.val,
                                     merged |-> there.self,
                                     back |-> back.val,
                                     mergedBack |-> back.self])
    /\ UNCHANGED <<weights, dim, total, prev, err, pairings>>

NextPairing ==
    \/ Contract
    \/ IsDisjointFrom
    \/ Trim
    \/ Truncate
    \/ MergeWith
    \/ Width
    \/ TranslationDistance
    \/ IsIdentity
    \/ PeriodicInterval
    \/ RoundTrip
    \/ MergeBothWays

SpecPairing == InitPairing /\ [][NextPairing]_vars

\* ---- SpecFresh: one call on newly constructed pairings.
\* The arguments handed to periodicPairing.
PeriodicEnds == 1..(2 * MaxP + 1)
Periods == 1..(MaxP + 1)

\* periodicPairing( start, end, period ) for start < end.
PeriodicPairing ==
    /\ last.op = "init"
    /\ \E start \in PeriodicEnds, end \in PeriodicEnds, period \in Periods :
        /\ start < end
        /\ last' = FunctionCall("periodicPairing", <<start, end, period>>,
                                periodicPairing(start, end, period))
    /\ UNCHANGED <<weights, dim, total, prev, given, pairing, err, pairings>>

\* pairing.transmitBy( other ) for a newly constructed other; the result
\* is recorded with other as the call leaves it.
TransmitBy ==
    /\ last.op = "init"
    /\ \E other \in PairingsWithin(MaxP) :
        LET r == transmitBy(pairing, other)
        IN  /\ pairing' = r.self
            /\ given' = pairing
            /\ last' = FunctionCall("transmitBy", <<other>>,
                                    [val |-> r.val, other |-> r.other])
    /\ UNCHANGED <<weights, dim, total, prev, err, pairings>>

\* pairing.periodicInterval() on the newly constructed pairing.
FreshPeriodicInterval ==
    /\ last.op = "init"
    /\ LET r == periodicInterval(pairing)
       IN  /\ pairing' = r.self
           /\ given' = pairing
           /\ last' = FunctionCall("periodicInterval", <<>>, r.val)
    /\ UNCHANGED <<weights, dim, total, prev, err, pairings>>

NextFresh ==
    \/ PeriodicPairing
    \/ TransmitBy
    \/ FreshPeriodicInterval

SpecFresh == InitPairing /\ [][NextFresh]_vars

\* ---- SpecPairings: one deleteIdentityPairings call on a pseudogroup.
\* All lists of at most n pairings of PairingsWithin( MaxQ ).
RECURSIVE PairingLists(_)
PairingLists(n) ==
    IF n = 0 THEN {<<>>}
    ELSE LET shorter == PairingLists(n - 1)
         IN  shorter \cup {Append(L, P) : L \in shorter,
                                          P \in PairingsWithin(MaxQ)}

\* self._pairings = list( pairings )
InitPairings ==
    /\ weights = <<>>
    /\ dim = None
    /\ total = 0
    /\ prev = <<>>
    /\ err = "none"
    /\ last = Named("init")
    /\ given = Pairing(1, 1, 1, TRUE)
    /\ pairing = Pairing(1, 1, 1, TRUE)
    /\ pairings \in PairingLists(MaxOrder)

\* self.deleteIdentityPairings(); the call is recorded with the list as it
\* found it.
DeleteIdentityPairings ==
    /\ last.op = "init"
    /\ pairings' = deleteIdentityPairings(pairings)
    /\ last' = FunctionCall("deleteIdentityPairings", pairings, None)
    /\ UNCHANGED <<weights, dim, total, prev, given, pairing, err>>

NextPairings == DeleteIdentityPairings

SpecPairings == InitPairings /\ [][NextPairings]_vars

\* ---- SpecConstruct: one Weights( data ) call.
\* All initialiser lists of total width n whose weight vectors have
\* dimensions in 1..MaxDim, not necessarily all the same.
RECURSIVE MixedData(_)
MixedData(n) ==
    IF n = 0 THEN {<<>>}
    ELSE UNION {{<<<<w, v>>>> \o rest :
                    v \in UNION {Vectors(d) : d \in 1..MaxDim},
                    rest \in MixedData(n - w)} : w \in 1..n}

\* No Weights object has been constructed yet.
InitConstruct ==
    /\ weights = <<>>
    /\ dim = None
    /\ total = 0
    /\ prev = <<>>
    /\ last = Named("init")
    /\ given = Pairing(1, 1, 1, TRUE)
    /\ pairing = Pairing(1, 1, 1, TRUE)
    /\ err = "none"
    /\ pairings = <<>>

\* weights = Weights( data ); the call is recorded with its data.
Construct ==
    /\ last.op = "init"
    /\ \E n \in 0..MaxN :
        \E data \in MixedData(n) :
            LET r == WeightsInit(data)
            IN  /\ weights' = r.weights
                /\ dim' = r.dim
                /\ err' = r.err
                /\ total' = n
                /\ last' = [op |-> "Weights", data |-> data]
                /\ UNCHANGED <<prev, given, pairing, pairings>>

NextConstruct == Construct

SpecConstruct == InitConstruct /\ [][NextConstruct]_vars

\* C26: extend( width, weight ) on a map whose dimension() is not None
\* and differs from len( weight ) raises WeightDimensionError and leaves
\* the map as it was.
C26_ExtendDimension ==
    (last.op = "extend" /\ dim # None /\ Len(last.weight) # dim) =>
        /\ err = "WeightDimensionError"
        /\ weights = prev

\* ------------------------------------------- claims on the constructor
\* The sum of the widths of the first i entries of data.
RECURSIVE WidthSum(_, _)
WidthSum(data, i) ==
    IF i = 0 THEN 0 ELSE WidthSum(data, i - 1) + data[i][1]

\* Some entry of data has a vector whose length differs from the first's.
Mismatch(data) ==
    \E i \in 1..Len(data) : Len(data[i][2]) # Len(data[1][2])

\* C11: Weights( data ), for data whose vectors have positive lengths,
\* raises WeightDimensionError exactly when some segment's vector length
\* differs from the first segment's; otherwise it raises nothing and builds
\* a map whose length is the sum of the widths, where the points of the
\* i-th segment carry the i-th vector and adjacent runs carry different
\* vectors.
C11_ConstructorDimension ==
    (last.op = "Weights") =>
        LET data == last.data
        IN  /\ (err = "WeightDimensionError") <=> Mismatch(data)
            /\ ~Mismatch(data) =>
                /\ err = "none"
                /\ intervalLength(weights) = WidthSum(data, Len(data))
                /\ \A i \in 1..Len(data) :
                       \A x \in (WidthSum(data, i - 1) + 1)..WidthSum(data, i) :
                           WeightAt(weights, x) = data[i][2]
                /\ \A k \in 1..(Len(weights) - 1) :
                       /\ weights[k].end < weights[k + 1].end
                       /\ weights[k].w # weights[k + 1].w

\* A construction that raised because a later vector is shorter than the
\* first.
C11_Witness ==
    /\ last.op = "Weights"
    /\ err = "WeightDimensionError"
    /\ \E i \in 1..Len(last.data) : Len(last.data[i][2]) < Len(last.data[1][2])

\* ---------------------------------------------------- claims on Pairing
\* C14: for a pairing constructed from positive a, c, width in either
\* order, after any sequence of contract, trim, truncate and mergeWith
\* calls (and queries), successful or not, a <= c and b - a = d - c.
C14_StoredOrder ==
    /\ pairing.a <= pairing.c
    /\ pairing.b - pairing.a = pairing.d - pairing.c

\* A trimmed Reversing pairing has been truncated.
C14_Witness ==
    /\ last.op = "truncate"
    /\ last.ret = TRUE
    /\ ~pairing.preserving
    /\ given.c = given.b + 1
    /\ given.width = <<>>

\* C15: every mutator leaves all four endpoints of a pairing constructed
\* with positive a, c and width positive, and b >= a and d >= c.
C15_EndpointsPositive ==
    /\ pairing.a >= 1
    /\ pairing.c >= 1
    /\ pairing.b >= pairing.a
    /\ pairing.d >= pairing.c

\* The interval [start, start+width-1] has no point in common with the
\* domain or with the range of P.
Disjoint(P, start, width) ==
    /\ (start..(start + width - 1)) \cap (P.a..P.b) = {}
    /\ (start..(start + width - 1)) \cap (P.c..P.d) = {}

\* C16: contract( start, width ) returns True exactly when
\* [start, start+width-1] is disjoint from the domain [a,b] and from the
\* range [c,d]; isDisjointFrom( start, width ) returns that truth value
\* and leaves the pairing as it was.
C16_ContractLegality ==
    /\ (last.op = "contract") =>
           (last.ret <=> Disjoint(given, last.start, last.width))
    /\ (last.op = "isDisjointFrom") =>
           /\ last.ret <=> Disjoint(given, last.start, last.width)
           /\ pairing = given

\* The endpoint e after a block ending at end and of the given width has
\* been removed: the endpoints right of the block move left by width.
ShiftedPast(e, end, width) == IF e > end THEN e - width ELSE e

\* C17: a contract( start, width ) that returned True has moved exactly
\* the endpoints right of the block [start,end] left by width: all four
\* when the block is left of the domain, only c and d when it is strictly
\* between domain and range, none when it is right of the range; the
\* width and the orientation are as before.
C17_ContractShift ==
    (last.op = "contract" /\ last.ret = TRUE) =>
        LET end == last.start + last.width - 1
        IN  /\ pairing.a = ShiftedPast(given.a, end, last.width)
            /\ pairing.b = ShiftedPast(given.b, end, last.width)
            /\ pairing.c = ShiftedPast(given.c, end, last.width)
            /\ pairing.d = ShiftedPast(given.d, end, last.width)
            /\ (end < given.a) =>
                   /\ pairing.a = given.a - last.width
                   /\ pairing.b = given.b - last.width
                   /\ pairing.c = given.c - last.width
                   /\ pairing.d = given.d - last.width
            /\ (last.start > given.b /\ end < given.c) =>
                   /\ pairing.a = given.a
                   /\ pairing.b = given.b
                   /\ pairing.c = given.c - last.width
                   /\ pairing.d = given.d - last.width
            /\ (last.start > given.d) => SameEndpoints(pairing, given)
            /\ pairing.preserving = given.preserving
            /\ pairingWidth(pairing).val = pairingWidth(given).val
            /\ pairing.b - pairing.a = given.b - given.a

\* C18: trim() returns True exactly when the pairing is Reversing with
\* b >= c; then a, d and the orientation are as before, b is
\* floor((a+d-1)/2), c is floor((a+d+2)/2) and b < c; when it returns
\* False the pairing is as before.
C18_Trim ==
    (last.op = "trim") =>
        /\ last.ret <=> (~given.preserving /\ given.b >= given.c)
        /\ (last.ret = TRUE) =>
               /\ pairing.a = given.a
               /\ pairing.d = given.d
               /\ pairing.preserving = given.preserving
               /\ pairing.b = (given.a + given.d - 1) \div 2
               /\ pairing.c = (given.a + given.d + 2) \div 2
               /\ pairing.b < pairing.c
        /\ (last.ret = FALSE) => pairing = given

\* trim has returned True on a pairing of width at least 2 whose domain
\* and range shared exactly one point.
C18_Witness ==
    /\ last.op = "trim"
    /\ last.ret = TRUE
    /\ given.b = given.c
    /\ given.b > given.a

\* C19: truncate( newBound ) returns True exactly when c <= newBound < d
\* and the pairing is Preserving or is Reversing with c > b; then d is
\* newBound, c and the orientation are as before and, if Preserving, a is
\* as before and b is less by (old d - newBound), if Reversing, b is as
\* before and a is more by (old d - newBound).
C19_Truncate ==
    (last.op = "truncate") =>
        /\ last.ret <=> (/\ given.c <= last.start
                         /\ last.start < given.d
                         /\ (given.preserving \/ given.c > given.b))
        /\ (last.ret = TRUE) =>
               /\ pairing.d = last.start
               /\ pairing.c = given.c
               /\ pairing.preserving = given.preserving
               /\ IF given.preserving
                  THEN /\ pairing.a = given.a
                       /\ pairing.b = given.b - (given.d - last.start)
                  ELSE /\ pairing.b = given.b
                       /\ pairing.a = given.a + (given.d - last.start)

\* truncate has cut one point off the range of a Reversing pairing with
\* disjoint domain and range.
C19_Witness ==
    /\ last.op = "truncate"
    /\ last.ret = TRUE
    /\ ~given.preserving
    /\ pairing.a = given.a + 1

\* C20: a contract, truncate or mergeWith that returned False has left
\* the endpoints and the orientation of its pairing as they were, and
\* mergeWith, whatever it returned, those of its argument.
C20_FailureLeavesUnchanged ==
    /\ (last.op \in {"contract", "truncate", "mergeWith"}
           /\ last.ret = FALSE) => SameEndpoints(pairing, given)
    /\ (last.op = "mergeWith") => SameEndpoints(last.after, last.other)

\* mergeWith has returned False on two periodic pairings whose periodic
\* intervals overlap too little.
C20_Witness ==
    /\ last.op = "mergeWith"
    /\ last.ret = FALSE
    /\ pairing.periodicInterval # <<>>
    /\ pairing.periodicInterval[1] # <<>>
    /\ last.after.periodicInterval # <<>>
    /\ last.after.periodicInterval[1] # <<>>
    /\ last.after.periodicInterval[1][2] >= pairing.periodicInterval[1][1]

\* The periodic interval the endpoints and orientation of P determine.
IntervalOf(P) ==
    IF P.preserving /\ P.c <= P.b + 1 /\ P.c # P.a
    THEN <<P.a, P.d, P.c - P.a>>
    ELSE <<>>

\* C21: after any interleaving of the cached queries with the mutators,
\* width() returns b-a+1, translationDistance() returns c-a if Preserving
\* and -1 otherwise, isIdentity() returns (Preserving and a = c), and
\* periodicInterval() returns (a, d, c-a) if Preserving, c <= b+1 and
\* c # a, and the empty tuple otherwise, for the endpoints the pairing has
\* at the call.
C21_QueriesCurrent ==
    /\ (last.op = "width") => last.ret = given.b - given.a + 1
    /\ (last.op = "translationDistance") =>
           last.ret = (IF given.preserving THEN given.c - given.a ELSE 0 - 1)
    /\ (last.op = "isIdentity") =>
           (last.ret <=> (given.preserving /\ given.a = given.c))
    /\ (last.op = "periodicInterval") => last.ret = IntervalOf(given)

\* C23: p.mergeWith( q ) returns True exactly when p and q both have a
\* non-empty periodic interval, (s1,e1,p1) and (s2,e2,p2), with
\* min(e1,e2) - max(s1,s2) + 1 >= p1 + p2; p is then the Preserving
\* pairing whose periodicInterval() is
\* (min(s1,s2), max(e1,e2), gcd(p1,p2)).
C23_MergeWith ==
    (last.op = "mergeWith") =>
        LET mine == IntervalOf(given)
            yours == IntervalOf(last.other)
            legal == /\ mine # <<>>
                     /\ yours # <<>>
                     /\ Min(mine[2], yours[2]) - Max(mine[1], yours[1]) + 1
                            >= mine[3] + yours[3]
        IN  /\ last.ret <=> legal
            /\ (last.ret = TRUE) =>
                   /\ pairing.preserving
                   /\ periodicInterval(pairing).val =
                          <<Min(mine[1], yours[1]), Max(mine[2], yours[2]),
                            gcd(mine[3], yours[3])>>
                   /\ IntervalOf(pairing) = periodicInterval(pairing).val

\* ------------------------------------- claims on functions of pairings
\* C22: for positive start < end and positive period,
\* periodicPairing( start, end, period ) returns None exactly when
\* period > (end - start + 1) div 2, and otherwise a Preserving pairing
\* of width at least 1 whose periodicInterval() is (start, end, period).
C22_PeriodicPairing ==
    (last.op = "periodicPairing") =>
        LET start == last.args[1]
            end == last.args[2]
            period == last.args[3]
        IN  /\ (last.ret = <<>>) <=> (period > (end - start + 1) \div 2)
            /\ (last.ret # <<>>) =>
                   /\ last.ret[1].preserving
                   /\ pairingWidth(last.ret[1]).val >= 1
                   /\ last.ret[1].b >= last.ret[1].a
                   /\ periodicInterval(last.ret[1]).val = <<start, end, period>>

\* periodicPairing has built a pairing whose period is exactly half of an
\* even span.
C22_Witness ==
    /\ last.op = "periodicPairing"
    /\ last.ret # <<>>
    /\ last.args[3] = 2
    /\ last.args[2] - last.args[1] + 1 = 4

\* The endpoints trim() gives the pairing Q.
TrimOf(Q) ==
    IF ~Q.preserving /\ Q.b >= Q.c
    THEN [Q EXCEPT !.b = (Q.a + Q.d - 1) \div 2,
                   !.c = (Q.a + Q.d + 2) \div 2]
    ELSE Q

\* The range of P lies inside the range of the trimmed Q.
RangeInside(P, Q) ==
    /\ P.c >= TrimOf(Q).c
    /\ P.d <= TrimOf(Q).d

\* C24: this.transmitBy( other ) returns True when, once other is
\* trimmed, the range of this pairing lies inside the range of other, and
\* False in every other case.
C24_TransmitResult ==
    (last.op = "transmitBy") =>
        last.ret.val = <<RangeInside(given, last.args[1])>>

\* C25: when this.transmitBy( other ) returns False because the range of
\* this pairing does not lie inside the range of the trimmed other, this
\* pairing has the endpoints and orientation it had and other has those
\* trim() gives its state before the call.
C25_TransmitFailure ==
    (last.op = "transmitBy" /\ ~RangeInside(given, last.args[1])) =>
        /\ last.ret.val = <<FALSE>>
        /\ SameEndpoints(pairing, given)
        /\ SameEndpoints(last.ret.other, TrimOf(last.args[1]))

\* transmitBy has failed on an other that it trimmed, whose range held
\* the range of this pairing before the trim.
C25_Witness ==
    /\ last.op = "transmitBy"
    /\ last.ret.val = <<FALSE>>
    /\ last.ret.other.b < last.args[1].b
    /\ given.c >= last.args[1].c
    /\ given.d <= last.args[1].d



\* C27: periodicInterval() of a newly constructed pairing is non-empty
\* exactly when the pairing is Preserving, c <= b + 1 and c - a is not
\* zero; it is then (a, d, c - a), and otherwise the empty tuple, as for
\* every Reversing and every identity pairing.
C27_FreshPeriodicInterval ==
    (last.op = "periodicInterval") =>
        /\ (last.ret # <<>>) <=>
               (given.preserving /\ given.c <= given.b + 1
                   /\ given.c - given.a # 0)
        /\ (last.ret # <<>>) =>
               last.ret = <<given.a, given.d, given.c - given.a>>
        /\ (~given.preserving \/ given.a = given.c) => last.ret = <<>>

\* periodicInterval() has returned the interval of a pairing whose domain
\* and range are adjacent.
C27_Witness ==
    /\ last.op = "periodicInterval"
    /\ last.ret # <<>>
    /\ given.c = given.b + 1
    /\ given.b > given.a

\* C28: for every pairing P whose periodicInterval() is a non-empty
\* (s, e, p), periodicPairing( s, e, p ) returns a pairing, and it equals
\* P: same a, c, width and orientation.
C28_PeriodicRoundTrip ==
    (last.op = "roundTrip") =>
        /\ last.ret # <<>>
        /\ eq(last.ret[1], pairing)
        /\ SameEndpoints(last.ret[1], given)

\* C29: for all pairings p and q, p.mergeWith( q ) on a copy of p and
\* q.mergeWith( p ) on a copy of q return the same boolean, and when both
\* return True the two merged pairings are equal.
C29_MergeSymmetric ==
    (last.op = "mergeBothWays") =>
        /\ last.ret.there = last.ret.back
        /\ (last.ret.there /\ last.ret.back) =>
               eq(last.ret.merged, last.ret.mergedBack)

\* ---------------------------------------------------- claims on Pairings
\* The number of pairings of the list L with the endpoints and the
\* orientation of P.
Copies(L, P) == Cardinality({k \in 1..Len(L) : SameEndpoints(L[k], P)})

\* C30: after deleteIdentityPairings() no pairing of the pseudogroup is
\* an identity pairing, and every non-identity pairing is held as many
\* times as before the call, whatever the order of the list was.
C30_DeleteIdentityPairings ==
    (last.op = "deleteIdentityPairings") =>
        /\ \A k \in 1..Len(pairings) :
               ~(pairings[k].preserving /\ pairings[k].a = pairings[k].c)
        /\ \A k \in 1..Len(last.args) :
               ~(last.args[k].preserving /\ last.args[k].a = last.args[k].c)
                   => Copies(pairings, last.args[k])
                          = Copies(last.args, last.args[k])
        /\ \A k \in 1..Len(pairings) :
               Copies(pairings, pairings[k]) = Copies(last.args, pairings[k])

\* deleteIdentityPairings has run on a list of a non-identity pairing
\* followed by two identity pairings.
C30_Witness ==
    /\ last.op = "deleteIdentityPairings"
    /\ Len(last.args) = 3
    /\ Len(pairings) = 1
    /\ ~last.args[1].preserving
    /\ SameEndpoints(pairings[1], last.args[1])

====
